---- MODULE Spec2Model ----
(***************************************************************************)
(* Model of the boolean job-search service: the query tree (app/models.py), *)
(* the QueryBuilder that compiles a tree into a parameterized statement     *)
(* (app/query_builder.py), the pooled executor (app/database.py) and the    *)
(* search endpoint (app/api.py).                                            *)
(*                                                                         *)
(* A Python str is modelled as the sequence of the fragments it is          *)
(* formatted from; Str renders the fragments into the string itself.        *)
(* An Optional[X] attribute is a sequence of length 0 (None) or 1.          *)
(* A raised exception is a result whose exc field names its class.          *)
(***************************************************************************)
EXTENDS Integers, Sequences, FiniteSets, TLC

VARIABLES call, req, pool, builder

vars == <<call, req, pool, builder>>

(***************************************************************************)
(* app/models.py                                                           *)
(***************************************************************************)
TECHNOLOGY == "technology"
JOB_FUNCTION == "job_function"
ORGANIZATION == "organization"
FieldType == {TECHNOLOGY, JOB_FUNCTION, ORGANIZATION}

AND == "AND"
OR == "OR"
NOT == "NOT"
LogicalOperator == {AND, OR, NOT}

\* Optional[X]: None and a present value.
None == <<>>
Some(x) == <<x>>
IsNone(o) == Len(o) = 0
Get(o) == o[1]

\* Condition(field, value)
Condition(f, v) == [field |-> f, value |-> v]

\* QueryNode(type, operator, condition, children); an absent operator is "None".
QueryNode(t, o, c, ch) == [type |-> t, operator |-> o, condition |-> c, children |-> ch]

\* The two variants of the tagged union, as a request document spells them.
Cond(f, v) == QueryNode("condition", "None", Some(Condition(f, v)), None)
Op(o, ch) == QueryNode("operator", o, None, Some(ch))

(***************************************************************************)
(* Python values: strings as fragment sequences, exceptions as results.     *)
(***************************************************************************)
RECURSIVE Str(_)
Str(frags) == IF frags = <<>> THEN "" ELSE Head(frags) \o Str(Tail(frags))

\* sep.join(parts), each part a fragment sequence
RECURSIVE Join(_, _)
Join(sep, parts) ==
    IF parts = <<>> THEN <<>>
    ELSE IF Len(parts) = 1 THEN parts[1]
    ELSE parts[1] \o <<sep>> \o Join(sep, Tail(parts))

NoExc == "None"

\* the (clause, params, next_offset) triple of the predicate compiler
Triple(clause, params, next_offset) ==
    [exc |-> NoExc, msg |-> "", clause |-> clause, params |-> params,
     next_offset |-> next_offset]

RaiseTriple(exc, msg) ==
    [exc |-> exc, msg |-> msg, clause |-> <<>>, params |-> <<>>, next_offset |-> 0]

FieldSet(fields) == [exc |-> NoExc, msg |-> "", fields |-> fields]

RaiseFieldSet(exc, msg) == [exc |-> exc, msg |-> msg, fields |-> {}]

NoneHasNoField == "'NoneType' object has no attribute 'field'"
NoneNotSubscriptable == "'NoneType' object is not subscriptable"
NoneNotIterable == "'NoneType' object is not iterable"
ListIndexOutOfRange == "list index out of range"

(***************************************************************************)
(* app/query_builder.py                                                    *)
(***************************************************************************)
RECURSIVE _collect_required_fields(_)
RECURSIVE CollectChildren(_, _, _)

\* the loop of _collect_required_fields over node.children, from child i on
CollectChildren(children, i, fields) ==
    IF i > Len(children) THEN FieldSet(fields)
    ELSE LET sub == _collect_required_fields(children[i])
         IN  IF sub.exc # NoExc THEN sub
             ELSE CollectChildren(children, i + 1, fields \cup sub.fields)

\* a collector that looks at the first child of an operator node only
_collect_required_fields_FirstChild(node) ==
    IF node.type = "condition"
    THEN IF IsNone(node.condition)
         THEN RaiseFieldSet("AttributeError", NoneHasNoField)
         ELSE FieldSet({Get(node.condition).field})
    ELSE IF /\ node.type = "operator"
            /\ ~IsNone(node.children)
            /\ Get(node.children) # <<>>
         THEN _collect_required_fields(Get(node.children)[1])
         ELSE FieldSet({})

\* a collector that leaves out what stands under a NOT node
_collect_required_fields_SkipNot(node) ==
    IF node.type = "condition"
    THEN IF IsNone(node.condition)
         THEN RaiseFieldSet("AttributeError", NoneHasNoField)
         ELSE FieldSet({Get(node.condition).field})
    ELSE IF /\ node.type = "operator"
            /\ node.operator # NOT
            /\ ~IsNone(node.children)
            /\ Get(node.children) # <<>>
         THEN CollectChildren(Get(node.children), 1, {})
         ELSE FieldSet({})

_collect_required_fields(node) ==
    IF node.type = "condition"
    THEN IF IsNone(node.condition)
         THEN RaiseFieldSet("AttributeError", NoneHasNoField)
         ELSE FieldSet({Get(node.condition).field})
    ELSE IF /\ node.type = "operator"
            /\ ~IsNone(node.children)
            /\ Get(node.children) # <<>>
         THEN CollectChildren(Get(node.children), 1, {})
         ELSE FieldSet({})

SelectPart == "SELECT DISTINCT jp.id, jp.datetime_pulled"
FromPart == "FROM job_posts jp"
OrganizationJoin == "INNER JOIN organizations o ON jp.organization_id = o.id"
TechnologyLinkJoin == "INNER JOIN job_posts_tech jpt ON jp.id = jpt.job_post_id"
TechnologyJoin == "INNER JOIN tech t ON jpt.tech_id = t.id"
JobFunctionLinkJoin == "INNER JOIN job_posts_job_functions jpjf ON jp.id = jpjf.job_post_id"
JobFunctionJoin == "INNER JOIN job_functions jf ON jpjf.job_function_id = jf.id"

\* query parts that put the technology joins before the organization join
query_parts_TechnologyFirst(required_fields) ==
    <<SelectPart, FromPart>>
    \o (IF TECHNOLOGY \in required_fields
        THEN <<TechnologyLinkJoin, TechnologyJoin>> ELSE <<>>)
    \o (IF ORGANIZATION \in required_fields THEN <<OrganizationJoin>> ELSE <<>>)
    \o (IF JOB_FUNCTION \in required_fields
        THEN <<JobFunctionLinkJoin, JobFunctionJoin>> ELSE <<>>)

\* query_parts of _build_base_query, before the join with " "
query_parts(required_fields) ==
    <<SelectPart, FromPart>>
    \o (IF ORGANIZATION \in required_fields THEN <<OrganizationJoin>> ELSE <<>>)
    \o (IF TECHNOLOGY \in required_fields
        THEN <<TechnologyLinkJoin, TechnologyJoin>> ELSE <<>>)
    \o (IF JOB_FUNCTION \in required_fields
        THEN <<JobFunctionLinkJoin, JobFunctionJoin>> ELSE <<>>)

_build_base_query(required_fields) ==
    LET parts == query_parts(required_fields)
    IN  Join(" ", [i \in 1..Len(parts) |-> <<parts[i]>>])

field_mapping ==
    [f \in FieldType |->
        CASE f = TECHNOLOGY -> "t.name"
          [] f = JOB_FUNCTION -> "jf.name"
          [] f = ORGANIZATION -> "o.name"]

\* the text of the placeholder with ordinal n
Placeholder(n) == "$" \o ToString(n)

\* the bound value of a condition: the value between wildcard markers
Wrapped(value) == "%" \o value \o "%"

\* a condition that writes its value into the text instead of binding it
_build_condition_Interpolated(condition, param_offset) ==
    IF IsNone(condition)
    THEN RaiseTriple("AttributeError", NoneHasNoField)
    ELSE LET column == field_mapping[Get(condition).field]
         IN  Triple(<<column, " ILIKE ", "'", Wrapped(Get(condition).value), "'">>,
                    <<>>,
                    param_offset)

_build_condition(condition, param_offset) ==
    IF IsNone(condition)
    THEN RaiseTriple("AttributeError", NoneHasNoField)
    ELSE LET column == field_mapping[Get(condition).field]
         IN  Triple(<<column, " ILIKE ", Placeholder(param_offset + 1)>>,
                    <<Wrapped(Get(condition).value)>>,
                    param_offset + 1)

RECURSIVE _build_where_clause(_, _)
RECURSIVE _build_operator(_, _)
RECURSIVE BuildChildren(_, _, _, _, _)

\* a loop that joins the children's predicates without parentheses
BuildChildren_NoParentheses(children, i, clauses, all_params, current_offset) ==
    IF i > Len(children)
    THEN [exc |-> NoExc, msg |-> "", clauses |-> clauses, params |-> all_params,
          next_offset |-> current_offset]
    ELSE LET sub == _build_where_clause(children[i], current_offset)
         IN  IF sub.exc # NoExc
             THEN [exc |-> sub.exc, msg |-> sub.msg, clauses |-> <<>>,
                   params |-> <<>>, next_offset |-> 0]
             ELSE BuildChildren(children, i + 1,
                                Append(clauses, sub.clause),
                                all_params \o sub.params,
                                sub.next_offset)

\* a loop that compiles every child from the offset of the first
BuildChildren_OffsetNotThreaded(children, i, clauses, all_params, current_offset) ==
    IF i > Len(children)
    THEN [exc |-> NoExc, msg |-> "", clauses |-> clauses, params |-> all_params,
          next_offset |-> current_offset]
    ELSE LET sub == _build_where_clause(children[i], current_offset)
         IN  IF sub.exc # NoExc
             THEN [exc |-> sub.exc, msg |-> sub.msg, clauses |-> <<>>,
                   params |-> <<>>, next_offset |-> 0]
             ELSE BuildChildren(children, i + 1,
                                Append(clauses, <<"(">> \o sub.clause \o <<")">>),
                                all_params \o sub.params,
                                current_offset)

\* the loop of _build_operator over node.children, from child i on
BuildChildren(children, i, clauses, all_params, current_offset) ==
    IF i > Len(children)
    THEN [exc |-> NoExc, msg |-> "", clauses |-> clauses, params |-> all_params,
          next_offset |-> current_offset]
    ELSE LET sub == _build_where_clause(children[i], current_offset)
         IN  IF sub.exc # NoExc
             THEN [exc |-> sub.exc, msg |-> sub.msg, clauses |-> <<>>,
                   params |-> <<>>, next_offset |-> 0]
             ELSE BuildChildren(children, i + 1,
                                Append(clauses, <<"(">> \o sub.clause \o <<")">>),
                                all_params \o sub.params,
                                sub.next_offset)

\* an operator compiler that writes NOT before its child without parentheses
_build_operator_NotUnwrapped(node, param_offset) ==
    IF node.operator = NOT
    THEN IF IsNone(node.children)
         THEN RaiseTriple("TypeError", NoneNotSubscriptable)
         ELSE IF Get(node.children) = <<>>
         THEN RaiseTriple("IndexError", ListIndexOutOfRange)
         ELSE LET sub == _build_where_clause(Get(node.children)[1], param_offset)
              IN  IF sub.exc # NoExc THEN sub
                  ELSE Triple(<<"NOT ">> \o sub.clause, sub.params, sub.next_offset)
    ELSE IF IsNone(node.children)
         THEN RaiseTriple("TypeError", NoneNotIterable)
         ELSE LET loop == BuildChildren(Get(node.children), 1, <<>>, <<>>, param_offset)
                  operator == IF node.operator = AND THEN " AND " ELSE " OR "
              IN  IF loop.exc # NoExc THEN RaiseTriple(loop.exc, loop.msg)
                  ELSE Triple(Join(operator, loop.clauses), loop.params,
                              loop.next_offset)

_build_operator(node, param_offset) ==
    IF node.operator = NOT
    THEN IF IsNone(node.children)
         THEN RaiseTriple("TypeError", NoneNotSubscriptable)
         ELSE IF Get(node.children) = <<>>
         THEN RaiseTriple("IndexError", ListIndexOutOfRange)
         ELSE LET sub == _build_where_clause(Get(node.children)[1], param_offset)
              IN  IF sub.exc # NoExc THEN sub
                  ELSE Triple(<<"NOT (">> \o sub.clause \o <<")">>,
                              sub.params, sub.next_offset)
    ELSE IF IsNone(node.children)
         THEN RaiseTriple("TypeError", NoneNotIterable)
         ELSE LET loop == BuildChildren(Get(node.children), 1, <<>>, <<>>, param_offset)
                  operator == IF node.operator = AND THEN " AND " ELSE " OR "
              IN  IF loop.exc # NoExc THEN RaiseTriple(loop.exc, loop.msg)
                  ELSE Triple(Join(operator, loop.clauses), loop.params,
                              loop.next_offset)

_build_where_clause(node, param_offset) ==
    IF node.type = "condition"
    THEN _build_condition(node.condition, param_offset)
    ELSE IF node.type = "operator"
    THEN _build_operator(node, param_offset)
    ELSE RaiseTriple("ValueError", "Unknown node type: " \o node.type)

\* build_query: the (query, params) it returns, with the locals it had computed
\* when it returned or raised; step names the statement it ended in
Built(required_joins, base_query, where_clause, params, query) ==
    [exc |-> NoExc, msg |-> "", step |-> "return", required_joins |-> required_joins,
     base_query |-> base_query, where_clause |-> where_clause,
     params |-> params, query |-> query]

RaiseBuilt(exc, msg, step, required_joins, base_query) ==
    [exc |-> exc, msg |-> msg, step |-> step, required_joins |-> required_joins,
     base_query |-> base_query, where_clause |-> <<>>, params |-> <<>>,
     query |-> <<>>]

\* a build_query that binds the limit as one more parameter
build_query_LimitBound(node, limit) ==
    LET required_joins == _collect_required_fields(node)
    IN  IF required_joins.exc # NoExc
        THEN RaiseBuilt(required_joins.exc, required_joins.msg, "collect", {}, <<>>)
        ELSE LET base_query == _build_base_query(required_joins.fields)
                 where == _build_where_clause(node, 0)
             IN  IF where.exc # NoExc
                 THEN RaiseBuilt(where.exc, where.msg, "where",
                                 required_joins.fields, base_query)
                 ELSE Built(required_joins.fields, base_query, where.clause,
                            where.params \o <<ToString(limit)>>,
                            base_query \o <<" WHERE ">> \o where.clause
                                \o <<" LIMIT ", Placeholder(where.next_offset + 1)>>)

build_query(node, limit) ==
    LET required_joins == _collect_required_fields(node)
    IN  IF required_joins.exc # NoExc
        THEN RaiseBuilt(required_joins.exc, required_joins.msg, "collect", {}, <<>>)
        ELSE LET base_query == _build_base_query(required_joins.fields)
                 where == _build_where_clause(node, 0)
             IN  IF where.exc # NoExc
                 THEN RaiseBuilt(where.exc, where.msg, "where",
                                 required_joins.fields, base_query)
                 ELSE Built(required_joins.fields, base_query, where.clause,
                            where.params,
                            base_query \o <<" WHERE ">> \o where.clause
                                \o <<" LIMIT ", ToString(limit)>>)

(***************************************************************************)
(* The query trees and limits that are compiled.                            *)
(***************************************************************************)
\* nesting depth of the generated operator nodes
MaxDepth == 2

Limits == {-1, 10, 100}

Operators == LogicalOperator \cup {"None"}

\* a condition node whose condition attribute is absent
CondNone == QueryNode("condition", "None", None, None)

\* a node whose type tag is neither "condition" nor "operator"
BadNode == QueryNode("group", "None", None, None)

LeafConditions ==
    {Cond(ORGANIZATION, "apple"), Cond(TECHNOLOGY, ".net"), Cond(JOB_FUNCTION, "data")}

Leaves == LeafConditions \cup {CondNone, BadNode}

\* operator nodes over leaves: children absent, empty, one leaf or two leaves
BaseNodes ==
    {QueryNode("operator", o, None, None) : o \in Operators}
    \cup {Op(o, <<>>) : o \in Operators}
    \cup {Op(o, <<l>>) : o \in Operators, l \in Leaves}
    \cup {Op(o, <<l1, l2>>) : o \in Operators, l1 \in Leaves, l2 \in Leaves}

\* the leaves that stand beside a nested operator node
Siblings == {Cond(JOB_FUNCTION, "data"), BadNode}

\* operator nodes that nest t, alone or beside a leaf
Wraps(t) ==
    {Op(o, <<t>>) : o \in Operators}
    \cup {Op(o, <<t, l>>) : o \in Operators, l \in Siblings}
    \cup {Op(o, <<l, t>>) : o \in Operators, l \in Siblings}

\* nesting depth of operator nodes in a tree
RECURSIVE Depth(_)
RECURSIVE MaxChildDepth(_, _)
MaxChildDepth(children, i) ==
    IF i > Len(children) THEN 0
    ELSE LET d == Depth(children[i])
             rest == MaxChildDepth(children, i + 1)
         IN  IF d > rest THEN d ELSE rest

Depth(node) ==
    IF node.type # "operator" THEN 0
    ELSE IF IsNone(node.children) THEN 1
    ELSE 1 + MaxChildDepth(Get(node.children), 1)

\* tests/test_queries.py: queries 1, 4, 11, 15 and 20
Query1 == Cond(ORGANIZATION, "apple")
Query4 == Op(AND, <<Cond(ORGANIZATION, "apple"), Cond(TECHNOLOGY, ".net")>>)
Query11 ==
    Op(AND, <<Op(NOT, <<Cond(ORGANIZATION, "apple")>>),
              Op(OR, <<Cond(JOB_FUNCTION, "statistician"), Cond(TECHNOLOGY, "psql")>>)>>)
Query15 ==
    Op(AND, <<Op(NOT, <<Op(OR, <<Cond(ORGANIZATION, "google"),
                                 Cond(ORGANIZATION, "apple")>>)>>),
              Cond(JOB_FUNCTION, "data")>>)
Query20 ==
    Op(AND, <<Cond(ORGANIZATION, "ibm"), Cond(TECHNOLOGY, "java"),
              Cond(TECHNOLOGY, "cloud"), Cond(JOB_FUNCTION, "engineer")>>)
TestQueries == {Query1, Query4, Query11, Query15, Query20}

\* the query documents a caller starts from
StartTrees == Leaves \cup BaseNodes \cup TestQueries

(***************************************************************************)
(* app/database.py and app/api.py: the requests in flight and the pool.     *)
(***************************************************************************)
\* concurrent search requests
NumRequests == 2

\* connections the pool may hand out at once (max_size of create_pool, scaled)
max_size == 1

Requests == 1..NumRequests

\* Database.connect: the pool, as the set of its free connections
Connections == 1..max_size

\* the trees the requests carry
ServiceQueries ==
    {Query1, Query4, CondNone, BadNode,
     QueryNode("operator", NOT, None, None),
     Op(NOT, <<>>),
     Op(NOT, <<Cond(ORGANIZATION, "apple"), Cond(TECHNOLOGY, ".net")>>),
     QueryNode("operator", AND, None, None),
     Op(OR, <<>>),
     Op(AND, <<Cond(ORGANIZATION, "apple"), BadNode>>),
     Op(AND, <<Op(NOT, <<>>), BadNode>>),
     Op("None", <<Cond(JOB_FUNCTION, "data")>>)}

\* limit: int = 10
DefaultLimit == 10

\* rows of job_posts, as connection.fetch returns them
Row(id) == [id |-> id, datetime_pulled |-> "2024-01-01"]
FetchedRows == {<<>>, <<Row(7), Row(3)>>}

\* exception classes the executor raises; DataError derives from ValueError
ExecutorErrors == {"PostgresSyntaxError", "DataError"}
AcquireErrors == {"ConnectionRefusedError"}
ValueErrors == {"ValueError", "DataError"}

\* str(e) of an exception the executor raised
ExecutorMessage(exc) == "asyncpg " \o exc \o ": job_posts jp, o.name"

\* dict(row)
dict(row) == [k \in DOMAIN row |-> row[k]]

NoResponse == [status_code |-> 0, detail |-> "", status |-> "", count |-> 0, jobs |-> <<>>]

\* the dict search_jobs returns
Success(jobs) ==
    [status_code |-> 200, detail |-> "", status |-> "success", count |-> Len(jobs),
     jobs |-> jobs]

HTTPException(status_code, detail) ==
    [status_code |-> status_code, detail |-> detail, status |-> "", count |-> 0,
     jobs |-> <<>>]

\* except clauses that answer every exception as an internal error
HandleException_AllInternal(exc, msg) == HTTPException(500, "Internal server error")

\* the except clauses of search_jobs
HandleException(exc, msg) ==
    IF exc \in ValueErrors
    THEN HTTPException(400, msg)
    ELSE HTTPException(500, "Internal server error")

NoOutcome == [exc |-> NoExc, msg |-> "", rows |-> <<>>]

NoRequest ==
    [pc |-> "idle", query |-> None, limit |-> 0, sql_query |-> <<>>, params |-> <<>>,
     connection |-> None, outcome |-> NoOutcome, response |-> NoResponse,
     executor_calls |-> 0, acquired |-> 0]

\* search_jobs up to its first await: compile, then call db.execute_query
SearchJobs(r) ==
    /\ req[r].pc = "idle"
    /\ \E query \in ServiceQueries, limit \in {DefaultLimit} :
          LET built == build_query(query, limit)
          IN  req' = [req EXCEPT ![r] =
                  IF built.exc # NoExc
                  THEN [@ EXCEPT !.pc = "done", !.query = Some(query),
                                 !.limit = limit,
                                 !.response = HandleException(built.exc, built.msg)]
                  ELSE [@ EXCEPT !.pc = "acquire", !.query = Some(query),
                                 !.limit = limit, !.sql_query = built.query,
                                 !.params = built.params,
                                 !.executor_calls = @ + 1]]
    /\ UNCHANGED <<call, pool, builder>>

\* execute_query: self.pool.acquire() hands out a free connection
Acquire(r) ==
    /\ req[r].pc = "acquire"
    /\ \E connection \in pool :
          /\ pool' = pool \ {connection}
          /\ req' = [req EXCEPT ![r].pc = "fetch", ![r].connection = Some(connection),
                                ![r].acquired = @ + 1]
    /\ UNCHANGED <<call, builder>>

\* execute_query: self.pool.acquire() raises
AcquireRaises(r) ==
    /\ req[r].pc = "acquire"
    /\ \E exc \in AcquireErrors :
          req' = [req EXCEPT ![r].pc = "done",
                             ![r].outcome = [exc |-> exc, msg |-> ExecutorMessage(exc),
                                             rows |-> <<>>],
                             ![r].response = HandleException(exc, ExecutorMessage(exc))]
    /\ UNCHANGED <<call, pool, builder>>

\* execute_query: connection.fetch(query, *args) returns rows or raises
Fetch(r) ==
    /\ req[r].pc = "fetch"
    /\ \/ \E rows \in FetchedRows :
             req' = [req EXCEPT ![r].pc = "release",
                                ![r].outcome = [exc |-> NoExc, msg |-> "", rows |-> rows]]
       \/ \E exc \in ExecutorErrors :
             req' = [req EXCEPT ![r].pc = "release",
                                ![r].outcome = [exc |-> exc, msg |-> ExecutorMessage(exc),
                                                rows |-> <<>>]]
    /\ UNCHANGED <<call, pool, builder>>

\* a release that is skipped when the fetch raised
Released_OnSuccessOnly(free, connection, outcome) ==
    IF outcome.exc = NoExc THEN free \cup {connection} ELSE free

\* the pool after the async with block of execute_query is left
Released(free, connection, outcome) == free \cup {connection}

\* execute_query leaves its async with block; search_jobs answers
Release(r) ==
    /\ req[r].pc = "release"
    /\ pool' = Released(pool, Get(req[r].connection), req[r].outcome)
    /\ LET outcome == req[r].outcome
           jobs == [i \in 1..Len(outcome.rows) |-> dict(outcome.rows[i])]
       IN  req' = [req EXCEPT ![r].pc = "done", ![r].connection = None,
                              ![r].response =
                                  IF outcome.exc = NoExc THEN Success(jobs)
                                  ELSE HandleException(outcome.exc, outcome.msg)]
    /\ UNCHANGED <<call, builder>>

(***************************************************************************)
(* build_query calls in flight on one QueryBuilder: every call has its own  *)
(* stack of _build_where_clause frames, and a step runs one call up to its  *)
(* next call or return.                                                     *)
(***************************************************************************)
\* build_query calls in flight at once
NumCalls == 2
Calls == 1..NumCalls

\* the trees the calls compile
ReentrantTrees ==
    {Query15,
     Op(NOT, <<Cond(ORGANIZATION, "apple"), Cond(TECHNOLOGY, ".net")>>),
     Op(OR, <<Op(AND, <<>>), Cond(JOB_FUNCTION, "data")>>),
     Op(AND, <<Cond(ORGANIZATION, "apple"), BadNode>>),
     Op(AND, <<Cond(JOB_FUNCTION, "data"), Op(NOT, <<>>)>>),
     CondNone}

\* the locals of one _build_where_clause(node, param_offset) call
Frame(node, param_offset) ==
    [node |-> node, param_offset |-> param_offset, i |-> 1, clauses |-> <<>>,
     all_params |-> <<>>, current_offset |-> param_offset]

\* a build_query call: its arguments, its locals, its frames, the triple the
\* innermost finished frame returned, and what the call returned or raised;
\* preempted records that another call made a step while this one was in the
\* middle of its walk
NoCall ==
    [pc |-> "idle", node |-> None, limit |-> 0, required_joins |-> {},
     base_query |-> <<>>, stack |-> <<>>, ret |-> None, result |-> None,
     preempted |-> FALSE]

\* the QueryBuilder instance has no attributes
NoBuilder == [instance |-> {}, calls |-> [c \in Calls |-> NoCall]]

\* an exception leaves every frame and build_query
Raise(k, exc, msg) ==
    [k EXCEPT !.pc = "done", !.stack = <<>>, !.ret = None,
              !.result = Some(RaiseBuilt(exc, msg, "where", k.required_joins,
                                         k.base_query))]

Pop(k, triple) ==
    [k EXCEPT !.stack = SubSeq(k.stack, 1, Len(k.stack) - 1), !.ret = Some(triple)]

Push(k, node, param_offset) ==
    [k EXCEPT !.stack = Append(k.stack, Frame(node, param_offset))]

\* the innermost frame takes the triple its callee returned
Resume(k) ==
    LET n == Len(k.stack)
        top == k.stack[n]
        sub == Get(k.ret)
    IN  IF top.node.operator = NOT
        THEN Pop(k, Triple(<<"NOT (">> \o sub.clause \o <<")">>, sub.params,
                           sub.next_offset))
        ELSE [k EXCEPT !.ret = None,
                       !.stack[n].clauses = Append(@, <<"(">> \o sub.clause \o <<")">>),
                       !.stack[n].all_params = @ \o sub.params,
                       !.stack[n].current_offset = sub.next_offset,
                       !.stack[n].i = @ + 1]

\* the innermost frame runs up to its next call, its return or its raise
Enter(k) ==
    LET top == k.stack[Len(k.stack)]
        node == top.node
    IN  IF node.type = "condition"
        THEN LET triple == _build_condition(node.condition, top.param_offset)
             IN  IF triple.exc # NoExc THEN Raise(k, triple.exc, triple.msg)
                 ELSE Pop(k, triple)
        ELSE IF node.type = "operator"
        THEN IF node.operator = NOT
             THEN IF IsNone(node.children)
                  THEN Raise(k, "TypeError", NoneNotSubscriptable)
                  ELSE IF Get(node.children) = <<>>
                  THEN Raise(k, "IndexError", ListIndexOutOfRange)
                  ELSE Push(k, Get(node.children)[1], top.param_offset)
             ELSE IF IsNone(node.children)
                  THEN Raise(k, "TypeError", NoneNotIterable)
                  ELSE IF top.i <= Len(Get(node.children))
                  THEN Push(k, Get(node.children)[top.i], top.current_offset)
                  ELSE LET operator == IF node.operator = AND THEN " AND " ELSE " OR "
                       IN  Pop(k, Triple(Join(operator, top.clauses), top.all_params,
                                         top.current_offset))
        ELSE Raise(k, "ValueError", "Unknown node type: " \o node.type)

Run(k) == IF IsNone(k.ret) THEN Enter(k) ELSE Resume(k)

\* a builder whose calls keep the parameter offset in an attribute of the
\* instance instead of in their frames
Advance_SharedOffset(b, c) ==
    LET k == b.calls[c]
        n == Len(k.stack)
        shared == IF b.instance = {} THEN k.stack[n].current_offset
                  ELSE CHOOSE offset \in b.instance : TRUE
        loaded == [k EXCEPT !.stack[n].param_offset =
                                IF k.stack[n].i = 1 /\ IsNone(k.ret) THEN shared ELSE @,
                            !.stack[n].current_offset = shared]
        after == Run(loaded)
        stored == IF ~IsNone(after.ret) THEN Get(after.ret).next_offset
                  ELSE IF after.stack = <<>> THEN shared
                  ELSE after.stack[Len(after.stack)].current_offset
    IN  [instance |-> {stored}, calls |-> [b.calls EXCEPT ![c] = after]]

\* one step of call c; no attribute of the instance is read or written
Advance(b, c) == [b EXCEPT !.calls[c] = Run(b.calls[c])]

\* build_query is entered: the join-set, the base statement, and the call
\* of _build_where_clause(node) with the default offset 0
StartCall(c) ==
    /\ builder.calls[c].pc = "idle"
    /\ \E node \in ReentrantTrees, limit \in {DefaultLimit} :
          LET required_joins == _collect_required_fields(node)
              k == [NoCall EXCEPT !.node = Some(node), !.limit = limit]
          IN  builder' = [builder EXCEPT !.calls[c] =
                  IF required_joins.exc # NoExc
                  THEN [k EXCEPT !.pc = "done",
                                 !.result = Some(RaiseBuilt(required_joins.exc,
                                                            required_joins.msg,
                                                            "collect", {}, <<>>))]
                  ELSE [k EXCEPT !.pc = "where",
                                 !.required_joins = required_joins.fields,
                                 !.base_query = _build_base_query(required_joins.fields),
                                 !.stack = <<Frame(node, 0)>>]]
    /\ UNCHANGED <<call, req, pool>>

\* a call that has made a step of its walk and has not finished it
MidWalk(k) == k.pc = "where" /\ k.stack # <<Frame(Get(k.node), 0)>>

\* the calls in the middle of their walk while call c makes a step
Preempt(b, c) ==
    [b EXCEPT !.calls = [o \in Calls |->
        IF o # c /\ MidWalk(b.calls[o]) THEN [b.calls[o] EXCEPT !.preempted = TRUE]
        ELSE b.calls[o]]]

\* a call in _build_where_clause makes its next step
StepCall(c) ==
    /\ builder.calls[c].pc = "where"
    /\ builder.calls[c].stack # <<>>
    /\ builder' = Advance(Preempt(builder, c), c)
    /\ UNCHANGED <<call, req, pool>>

\* the outermost _build_where_clause has returned: build_query formats the
\* statement and returns
ReturnCall(c) ==
    /\ builder.calls[c].pc = "where"
    /\ builder.calls[c].stack = <<>>
    /\ LET k == builder.calls[c]
           where == Get(k.ret)
       IN  builder' = [builder EXCEPT !.calls[c] =
               [k EXCEPT !.pc = "done", !.ret = None,
                         !.result = Some(Built(k.required_joins, k.base_query,
                                               where.clause, where.params,
                                               k.base_query \o <<" WHERE ">>
                                                 \o where.clause
                                                 \o <<" LIMIT ", ToString(k.limit)>>))]]
    /\ UNCHANGED <<call, req, pool>>

(***************************************************************************)
(* The compiler on its own: a caller composes a query tree and makes one    *)
(* build_query call on a fresh QueryBuilder.                                *)
(***************************************************************************)
\* a query tree that has not been compiled yet
Composed(node) == [fn |-> "compose", node |-> node]

InitService ==
    /\ builder = NoBuilder
    /\ req = [r \in Requests |-> NoRequest]
    /\ pool = Connections

Init ==
    /\ call \in {Composed(node) : node \in StartTrees}
    /\ InitService

\* the caller nests the tree under one more operator node
Nest ==
    /\ call.fn = "compose"
    /\ Depth(call.node) < MaxDepth
    /\ \E node \in Wraps(call.node) : call' = Composed(node)
    /\ UNCHANGED <<req, pool, builder>>

\* builder = QueryBuilder(); builder.build_query(node, limit)
BuildQuery ==
    /\ call.fn = "compose"
    /\ \E limit \in Limits :
          call' = [fn |-> "build_query", node |-> call.node, limit |-> limit,
                   ret |-> build_query(call.node, limit)]
    /\ UNCHANGED <<req, pool, builder>>

\* start offsets given to a direct _build_where_clause call
MaxOffset == 2

\* builder._build_where_clause(node, param_offset)
BuildWhereClause ==
    /\ call.fn = "compose"
    /\ \E param_offset \in 0..MaxOffset :
          call' = [fn |-> "_build_where_clause", node |-> call.node,
                   param_offset |-> param_offset,
                   ret |-> _build_where_clause(call.node, param_offset)]
    /\ UNCHANGED <<req, pool, builder>>

Next == Nest \/ BuildQuery \/ BuildWhereClause

Spec == Init /\ [][Next]_vars

(***************************************************************************)
(* The service: concurrent search requests over the shared pool.            *)
(***************************************************************************)
ServiceInit ==
    /\ call = Composed(Query1)
    /\ InitService

ServiceNext ==
    \E r \in Requests :
        \/ SearchJobs(r)
        \/ Acquire(r)
        \/ AcquireRaises(r)
        \/ Fetch(r)
        \/ Release(r)

ServiceSpec == ServiceInit /\ [][ServiceNext]_vars

(***************************************************************************)
(* The compiler under concurrent callers: build_query calls on one          *)
(* QueryBuilder, their steps interleaved in any order.                      *)
(***************************************************************************)
ReentrantNext ==
    \E c \in Calls :
        \/ StartCall(c)
        \/ StepCall(c)
        \/ ReturnCall(c)

ReentrantSpec == ServiceInit /\ [][ReentrantNext]_vars

(***************************************************************************)
(* Reading a compiled call: what the properties below speak about.          *)
(***************************************************************************)
\* a build_query call that has run, and one that returned a statement
Called == call.fn = "build_query"
Compiled == Called /\ call.ret.exc = NoExc

\* the placeholders of a text, left to right
Placeholders(text) ==
    SelectSeq(text, LAMBDA frag : frag \in {Placeholder(n) : n \in 0..Len(text)})

\* the children of a node, none when the attribute is absent
ChildrenOf(node) == IF IsNone(node.children) THEN <<>> ELSE Get(node.children)

RECURSIVE TreeConditions(_)
RECURSIVE ForestConditions(_, _)

\* the conditions of the condition nodes of a tree, in left-to-right tree order
TreeConditions(node) ==
    IF node.type = "condition"
    THEN node.condition
    ELSE ForestConditions(ChildrenOf(node), 1)

ForestConditions(children, i) ==
    IF i > Len(children) THEN <<>>
    ELSE TreeConditions(children[i]) \o ForestConditions(children, i + 1)

\* the fields referenced by the condition nodes of a tree, at any depth
ReferencedFields(node) ==
    LET conds == TreeConditions(node)
    IN  {conds[i].field : i \in 1..Len(conds)}

\* C1: in every compiled tree the placeholders of the predicate are as many as
\* the parameters, the N-th placeholder is $N, and the N-th parameter is the
\* wrapped value of the N-th condition of the tree in left-to-right order.
C1_PlaceholdersBindTreeConditions ==
    Compiled =>
        LET ph == Placeholders(call.ret.where_clause)
            conds == TreeConditions(call.node)
        IN  /\ Len(ph) = Len(call.ret.params)
            /\ \A N \in 1..Len(ph) :
                  /\ ph[N] = Placeholder(N)
                  /\ N <= Len(conds)
                  /\ call.ret.params[N] = Wrapped(conds[N].value)

\* C2: whenever the collector returns, the join-set is exactly the set of
\* fields of the condition nodes of the tree, whatever operators nest them.
C2_JoinSetIsReferencedFields ==
    (Called /\ call.ret.step # "collect") =>
        call.ret.required_joins = ReferencedFields(call.node)

\* C2 witness: query 11, NOT apple AND (statistician OR psql), has been
\* collected and yields all three fields.
C2_Witness ==
    /\ Called
    /\ call.node = Query11
    /\ call.ret.required_joins = {ORGANIZATION, JOB_FUNCTION, TECHNOLOGY}

\* positions of a fragment in a text
Positions(text, frag) == {i \in 1..Len(text) : text[i] = frag}

\* the join fragments of each field, in the order they are written
JoinsOf(field) ==
    CASE field = ORGANIZATION -> <<OrganizationJoin>>
      [] field = TECHNOLOGY -> <<TechnologyLinkJoin, TechnologyJoin>>
      [] field = JOB_FUNCTION -> <<JobFunctionLinkJoin, JobFunctionJoin>>

JoinOrder == <<ORGANIZATION, TECHNOLOGY, JOB_FUNCTION>>

\* C7: the base statement starts with the SELECT ... FROM job_posts jp text,
\* then holds the joins of exactly the fields of the join-set, each once, in
\* the order organization, technology, job_function.
C7_BaseQueryJoinsFixedOrder ==
    (Called /\ call.ret.step # "collect") =>
        LET base == call.ret.base_query
            joins == call.ret.required_joins
            expected == [k \in 1..3 |->
                            IF JoinOrder[k] \in joins THEN JoinsOf(JoinOrder[k])
                            ELSE <<>>]
            emitted == SelectSeq(base, LAMBDA frag : frag \notin {" ", SelectPart, FromPart})
        IN  /\ Len(base) >= 3
            /\ Str(SubSeq(base, 1, 3))
                 = "SELECT DISTINCT jp.id, jp.datetime_pulled FROM job_posts jp"
            /\ \A f \in FieldType : \A k \in 1..Len(JoinsOf(f)) :
                  Cardinality(Positions(base, JoinsOf(f)[k]))
                      = IF f \in joins THEN 1 ELSE 0
            /\ emitted = expected[1] \o expected[2] \o expected[3]
            /\ \A i \in 1..Len(base) : (base[i] = " ") <=> (i % 2 = 0)

\* C7 witness: a tree that names job_function before organization and names
\* organization twice has been given its base statement.
C7_Witness ==
    /\ Called
    /\ call.ret.step # "collect"
    /\ call.node = Op(OR, <<Op(AND, <<Cond(JOB_FUNCTION, "data"),
                                     Cond(ORGANIZATION, "apple")>>),
                           Cond(JOB_FUNCTION, "data")>>)
    /\ call.ret.required_joins = {ORGANIZATION, JOB_FUNCTION}

RECURSIVE TreeNodes(_)
\* the nodes of a tree, at any depth
TreeNodes(node) ==
    {node} \cup UNION {TreeNodes(ChildrenOf(node)[i]) : i \in 1..Len(ChildrenOf(node))}

\* an operator node that breaks the children-arity invariant: a NOT node
\* without exactly one child, an AND/OR node without any child
ArityViolation(node) ==
    /\ node.type = "operator"
    /\ \/ node.operator = NOT /\ (IsNone(node.children) \/ Len(ChildrenOf(node)) # 1)
       \/ node.operator \in {AND, OR}
            /\ (IsNone(node.children) \/ Len(ChildrenOf(node)) = 0)

HasArityViolation(tree) == \E node \in TreeNodes(tree) : ArityViolation(node)

\* every condition value of a tree replaced by its image under a renaming
RECURSIVE Revalued(_, _)
Revalued(node, scheme) ==
    [node EXCEPT
        !.condition =
            IF IsNone(@) THEN @
            ELSE Some(Condition(Get(@).field,
                                IF scheme = "constant" THEN "x' OR 1=1 --"
                                ELSE Get(@).value \o "'")),
        !.children =
            IF IsNone(@) THEN @
            ELSE Some([i \in 1..Len(Get(@)) |-> Revalued(Get(@)[i], scheme)])]

\* the conditions the predicate compiler compiles, in the order it meets them
RECURSIVE CompiledConditions(_)
RECURSIVE CompiledForest(_, _)
CompiledConditions(node) ==
    IF node.type = "condition" THEN node.condition
    ELSE IF node.operator = NOT THEN CompiledConditions(ChildrenOf(node)[1])
    ELSE CompiledForest(ChildrenOf(node), 1)

CompiledForest(children, i) ==
    IF i > Len(children) THEN <<>>
    ELSE CompiledConditions(children[i]) \o CompiledForest(children, i + 1)

\* the filter column of each field
ColumnOf(field) ==
    CASE field = ORGANIZATION -> "o.name"
      [] field = TECHNOLOGY -> "t.name"
      [] field = JOB_FUNCTION -> "jf.name"

\* where the match operator stands in a text, left to right
IlikePositions(text) ==
    SelectSeq([i \in 1..Len(text) |-> i], LAMBDA i : text[i] = " ILIKE ")

\* C8: a compiled statement holds no condition value: every condition it
\* compiles is "<column> ILIKE $<index>" with the one parameter "%" + v + "%",
\* and the same tree under other condition values compiles to the same text.
\* The condition organization = "apple" alone gives "o.name ILIKE $1",
\* ["%apple%"] and the organization join only.
C8_ValuesOnlyInParameters ==
    Compiled =>
        LET conds == CompiledConditions(call.node)
            ret == call.ret
        IN  /\ Len(ret.params) = Len(conds)
            /\ \A i \in 1..Len(conds) : ret.params[i] = "%" \o conds[i].value \o "%"
            /\ LET at == IlikePositions(ret.where_clause)
               IN  /\ Len(at) = Len(conds)
                   /\ \A i \in 1..Len(at) :
                         /\ at[i] > 1 /\ at[i] < Len(ret.where_clause)
                         /\ ret.where_clause[at[i] - 1] = ColumnOf(conds[i].field)
                         /\ ret.where_clause[at[i] + 1] = "$" \o ToString(i)
            /\ \A i \in 1..Len(conds) : \A k \in 1..Len(ret.query) :
                  ret.query[k] \notin {conds[i].value, ret.params[i]}
            /\ \A scheme \in {"constant", "quoted"} :
                  LET other == build_query(Revalued(call.node, scheme), call.limit)
                  IN  /\ other.exc = NoExc
                      /\ Str(other.query) = Str(ret.query)
                      /\ Len(other.params) = Len(ret.params)
            /\ call.node = Query1 =>
                  /\ Str(ret.where_clause) = "o.name ILIKE $1"
                  /\ ret.params = <<"%apple%">>
                  /\ Str(ret.base_query)
                       = "SELECT DISTINCT jp.id, jp.datetime_pulled FROM job_posts jp "
                         \o "INNER JOIN organizations o ON jp.organization_id = o.id"

\* C8 witness: the single condition organization = "apple" has been compiled.
C8_Witness ==
    /\ Compiled
    /\ call.node = Query1
    /\ call.ret.params = <<"%apple%">>

\* C10: the statement is "<base statement> WHERE <predicate> LIMIT <limit>"
\* with the limit written as it was given; the limit takes no placeholder and
\* no parameter, and no limit value makes the compiler refuse.
C10_LimitIsVerbatimLiteral ==
    Called =>
        /\ \A limit \in Limits : build_query(call.node, limit).exc = call.ret.exc
        /\ Compiled =>
              LET ret == call.ret
              IN  /\ Str(ret.query)
                       = Str(ret.base_query) \o " WHERE " \o Str(ret.where_clause)
                         \o " LIMIT " \o ToString(call.limit)
                  /\ Len(Placeholders(ret.query)) = Len(CompiledConditions(call.node))
                  /\ Len(ret.params) = Len(CompiledConditions(call.node))
                  /\ ret.query[Len(ret.query)] = ToString(call.limit)

\* C10 witness: a two-condition tree has been compiled under the limit -1.
C10_Witness ==
    /\ Compiled
    /\ call.node = Query4
    /\ call.limit = -1
    /\ Len(call.ret.params) = 2

\* The statement of C1 on the trees that keep the children-arity invariant
\* (it fails only where a NOT node with several children is compiled).
PlaceholdersBindOnArityRespectingTrees ==
    HasArityViolation(call.node) \/ C1_PlaceholdersBindTreeConditions

(***************************************************************************)
(* Reading a request: what the properties of the service speak about.       *)
(***************************************************************************)
Received(r) == ~IsNone(req[r].query)
Done(r) == req[r].pc = "done"

\* a node the predicate compiler cannot go past
Faulty(node) ==
    \/ node.type \notin {"condition", "operator"}
    \/ node.type = "condition" /\ IsNone(node.condition)
    \/ node.type = "operator" /\ IsNone(node.children)
    \/ node.type = "operator" /\ node.operator = NOT /\ ChildrenOf(node) = <<>>

RECURSIVE Visit(_)
RECURSIVE VisitForest(_, _)

\* the nodes the predicate compiler comes to, in order, up to the first one it
\* cannot go past
Visit(node) ==
    IF Faulty(node) \/ node.type = "condition" THEN <<node>>
    ELSE IF node.operator = NOT THEN <<node>> \o Visit(ChildrenOf(node)[1])
    ELSE <<node>> \o VisitForest(ChildrenOf(node), 1)

VisitForest(children, i) ==
    IF i > Len(children) THEN <<>>
    ELSE LET seen == Visit(children[i])
         IN  IF Faulty(seen[Len(seen)]) THEN seen
             ELSE seen \o VisitForest(children, i + 1)

\* the join-set collector stops at a condition node without a condition
CollectorStops(tree) ==
    \E node \in TreeNodes(tree) : node.type = "condition" /\ IsNone(node.condition)

\* the nodes whose type tag the predicate compiler reads
Reached(tree) == IF CollectorStops(tree) THEN <<>> ELSE Visit(tree)

\* the unknown type tags among the reached nodes
UnknownTags(tree) ==
    {Reached(tree)[i].type : i \in 1..Len(Reached(tree))} \ {"condition", "operator"}

\* C3: a request whose tree holds an operator node that breaks the
\* children-arity invariant is never handed to the executor and is answered
\* with status 400.
C3_ArityViolationIsClientError ==
    \A r \in Requests :
        (Received(r) /\ HasArityViolation(Get(req[r].query))) =>
            /\ req[r].executor_calls = 0
            /\ Done(r) => req[r].response.status_code = 400

\* C4: a request whose compilation reaches a node with an unknown type tag is
\* answered with status 400 and the ValueError that names the tag, without a
\* call of the executor and without a connection of the pool.
C4_UnknownTypeIsClientError ==
    \A r \in Requests :
        (Received(r) /\ UnknownTags(Get(req[r].query)) # {}) =>
            /\ Done(r)
            /\ \E tag \in UnknownTags(Get(req[r].query)) :
                  req[r].response = HTTPException(400, "Unknown node type: " \o tag)
            /\ req[r].executor_calls = 0
            /\ req[r].acquired = 0
            /\ IsNone(req[r].connection)

\* C4 witness: the tree AND(organization = apple, <group node>) has been
\* answered with status 400 while another request holds the connection.
C4_Witness ==
    \E r \in Requests :
        /\ Done(r)
        /\ req[r].query = Some(Op(AND, <<Cond(ORGANIZATION, "apple"), BadNode>>))
        /\ req[r].response.status_code = 400
        /\ \E other \in Requests : req[other].pc = "fetch"

\* C5: a request in which the executor raised is answered with status 500 and
\* the detail "Internal server error", whatever the class of the exception.
C5_ExecutorErrorIsOpaque ==
    \A r \in Requests :
        (Done(r) /\ req[r].outcome.exc # NoExc) =>
            req[r].response = HTTPException(500, "Internal server error")

\* the connections requests hold
Held == {Get(req[r].connection) : r \in {q \in Requests : ~IsNone(req[q].connection)}}

\* C6: a request holds a connection exactly while its fetch runs and until
\* execute_query is left, no connection is held twice, every connection is
\* either free or held, and a finished request holds none, whether its fetch
\* returned or raised; when all requests have finished the pool is whole.
C6_ConnectionHeldOnlyDuringFetch ==
    /\ \A r \in Requests :
          /\ ~IsNone(req[r].connection) <=> req[r].pc \in {"fetch", "release"}
          /\ req[r].acquired <= 1
          /\ Done(r) => IsNone(req[r].connection)
    /\ \A r1, r2 \in Requests :
          (r1 # r2 /\ ~IsNone(req[r1].connection)) =>
              req[r1].connection # req[r2].connection
    /\ pool = Connections \ Held
    /\ (\A r \in Requests : Done(r)) => pool = Connections

\* C6 witness: a request whose fetch raised has finished and a later request
\* has acquired a connection and is fetching.
C6_Witness ==
    \E r1, r2 \in Requests :
        /\ Done(r1)
        /\ req[r1].acquired = 1
        /\ req[r1].outcome.exc \in ExecutorErrors
        /\ req[r2].pc = "fetch"
        /\ ~IsNone(req[r2].connection)

(***************************************************************************)
(* Reading a direct _build_where_clause call.                               *)
(***************************************************************************)
\* a _build_where_clause call that has run, and one that returned a triple
WhereCalled == call.fn = "_build_where_clause"
WhereCompiled == WhereCalled /\ call.ret.exc = NoExc

\* the children of a node compiled one after the other from a start offset,
\* each from the offset the one before it returned
RECURSIVE Operands(_, _, _)
Operands(children, i, offset) ==
    IF i > Len(children) THEN <<>>
    ELSE LET P == _build_where_clause(children[i], offset)
         IN  <<P>> \o Operands(children, i + 1, offset + Len(P.params))

\* "(P1) sep (P2) ... sep (Pn)" as a string
RECURSIVE Parenthesized(_, _)
Parenthesized(operands, sep) ==
    IF Len(operands) = 1 THEN "(" \o Str(operands[1].clause) \o ")"
    ELSE "(" \o Str(operands[1].clause) \o ")" \o sep
         \o Parenthesized(Tail(operands), sep)

RECURSIVE AllParams(_)
AllParams(operands) ==
    IF operands = <<>> THEN <<>> ELSE operands[1].params \o AllParams(Tail(operands))

\* C11: an AND (OR) node with one or more children compiles to
\* "(P1) AND (P2) ... AND (Pn)" (with OR), Pi the compiled predicate of the
\* i-th child in left-to-right order, each in its own parentheses, and its
\* parameters are the children's parameters in that order; query 4 gives
\* "(o.name ILIKE $1) AND (t.name ILIKE $2)", ["%apple%", "%.net%"] and the
\* organization join followed by the technology joins only.
C11_AndOrJoinsParenthesizedChildren ==
    /\ (/\ WhereCompiled
        /\ call.node.type = "operator"
        /\ call.node.operator \in {AND, OR}
        /\ Len(ChildrenOf(call.node)) >= 1) =>
            LET operands == Operands(ChildrenOf(call.node), 1, call.param_offset)
                sep == IF call.node.operator = AND THEN " AND " ELSE " OR "
            IN  /\ \A i \in 1..Len(operands) : operands[i].exc = NoExc
                /\ Str(call.ret.clause) = Parenthesized(operands, sep)
                /\ call.ret.params = AllParams(operands)
    /\ (Called /\ call.node = Query4) =>
            /\ call.ret.exc = NoExc
            /\ Str(call.ret.where_clause) = "(o.name ILIKE $1) AND (t.name ILIKE $2)"
            /\ call.ret.params = <<"%apple%", "%.net%">>
            /\ Str(call.ret.base_query)
                 = "SELECT DISTINCT jp.id, jp.datetime_pulled FROM job_posts jp "
                   \o "INNER JOIN organizations o ON jp.organization_id = o.id "
                   \o "INNER JOIN job_posts_tech jpt ON jp.id = jpt.job_post_id "
                   \o "INNER JOIN tech t ON jpt.tech_id = t.id"

\* C11 witness: an OR node over a nested operator node and a condition has
\* been compiled from the start offset 1.
C11_Witness ==
    /\ WhereCompiled
    /\ call.param_offset = 1
    /\ call.node = Op(OR, <<Op(AND, <<Cond(ORGANIZATION, "apple"),
                                     Cond(TECHNOLOGY, ".net")>>),
                           Cond(JOB_FUNCTION, "data")>>)
    /\ Len(call.ret.params) = 3

\* C12: a NOT node with exactly one child compiles to "NOT (<child>)" with the
\* child's parameters and the child's next offset; query 15 gives
\* "(NOT ((o.name ILIKE $1) OR (o.name ILIKE $2))) AND (jf.name ILIKE $3)"
\* with ["%google%", "%apple%", "%data%"].
C12_NotWrapsItsSingleChild ==
    /\ (/\ WhereCompiled
        /\ call.node.type = "operator"
        /\ call.node.operator = NOT
        /\ Len(ChildrenOf(call.node)) = 1) =>
            LET child == _build_where_clause(ChildrenOf(call.node)[1], call.param_offset)
            IN  /\ child.exc = NoExc
                /\ Str(call.ret.clause) = "NOT (" \o Str(child.clause) \o ")"
                /\ call.ret.params = child.params
                /\ call.ret.next_offset = child.next_offset
    /\ (Called /\ call.node = Query15) =>
            /\ call.ret.exc = NoExc
            /\ Str(call.ret.where_clause)
                 = "(NOT ((o.name ILIKE $1) OR (o.name ILIKE $2))) AND (jf.name ILIKE $3)"
            /\ call.ret.params = <<"%google%", "%apple%", "%data%">>

\* C12 witness: a NOT node over an OR of two conditions has been compiled
\* from the start offset 2.
C12_Witness ==
    /\ WhereCompiled
    /\ call.param_offset = 2
    /\ call.node = Op(NOT, <<Op(OR, <<Cond(ORGANIZATION, "apple"),
                                     Cond(TECHNOLOGY, ".net")>>)>>)
    /\ call.ret.next_offset = 4

\* C15: an operator node whose operator is absent (None) is rejected with a
\* validation error and not compiled as if it had a default operator; read on
\* the nodes whose children are one or more well-formed conditions, where
\* nothing but the absent operator could be rejected.
C15_AbsentOperatorIsRejected ==
    (/\ Called \/ WhereCalled
     /\ call.node.type = "operator"
     /\ call.node.operator = "None"
     /\ Len(ChildrenOf(call.node)) >= 1
     /\ \A i \in 1..Len(ChildrenOf(call.node)) :
            ChildrenOf(call.node)[i] \in LeafConditions) =>
        call.ret.exc = "ValueError"

\* C16: whenever build_query returns a statement, trees that break the arity
\* invariant included, the fields of the conditions compiled into the
\* predicate are within the join-set of the base statement, and every column
\* alias (o, t, jf) standing in the predicate has its joins in the base
\* statement.
C16_PredicateAliasesAreJoined ==
    Compiled =>
        LET compiled == CompiledConditions(call.node)
        IN  /\ {compiled[i].field : i \in 1..Len(compiled)} \subseteq call.ret.required_joins
            /\ \A field \in FieldType :
                 Positions(call.ret.where_clause, ColumnOf(field)) # {} =>
                    \A j \in 1..Len(JoinsOf(field)) :
                        Positions(call.ret.base_query, JoinsOf(field)[j]) # {}

\* C16 witness: a NOT node with two children has been compiled; its predicate
\* uses the alias o only and the join-set holds both children's fields.
C16_Witness ==
    /\ Compiled
    /\ call.node = Op(NOT, <<Cond(ORGANIZATION, "apple"), Cond(TECHNOLOGY, ".net")>>)
    /\ Positions(call.ret.where_clause, "o.name") # {}
    /\ Positions(call.ret.where_clause, "t.name") = {}
    /\ call.ret.required_joins = {ORGANIZATION, TECHNOLOGY}

\* a tree of the tagged union that keeps the arity invariant: every condition
\* node has its condition, every operator node has one of the three operators,
\* a NOT node one child and an AND/OR node one or more
WellFormed(tree) ==
    \A node \in TreeNodes(tree) :
        \/ node.type = "condition" /\ ~IsNone(node.condition)
        \/ /\ node.type = "operator"
           /\ node.operator \in LogicalOperator
           /\ ~ArityViolation(node)

\* the placeholders of a text compiled from a start offset, left to right
PlaceholdersFrom(text, offset) ==
    SelectSeq(text, LAMBDA frag : frag \in {Placeholder(n) : n \in 0..(offset + Len(text))})

\* C17: for every well-formed node and every start offset k,
\* _build_where_clause(node, k) returns (clause, params, next) with
\* next = k + len(params), and the placeholders of clause, left to right, are
\* exactly $(k+1), ..., $(next).
C17_OffsetIsThreaded ==
    (WhereCalled /\ WellFormed(call.node)) =>
        /\ call.ret.exc = NoExc
        /\ call.ret.next_offset = call.param_offset + Len(call.ret.params)
        /\ PlaceholdersFrom(call.ret.clause, call.param_offset)
             = [i \in 1..Len(call.ret.params) |-> Placeholder(call.param_offset + i)]

\* C17 witness: test query 15, three conditions under AND, NOT and OR, has
\* been compiled from the start offset 2 and returned the next offset 5.
C17_Witness ==
    /\ WhereCompiled
    /\ call.node = Query15
    /\ call.param_offset = 2
    /\ call.ret.next_offset = 5
    /\ Len(call.ret.params) = 3

(***************************************************************************)
(* The outcome of a request.                                                *)
(***************************************************************************)
\* whether the compilation of the request's tree returned a statement
CompilationSucceeded(r) == build_query(Get(req[r].query), req[r].limit).exc = NoExc

\* outcome 1: compiled, executed, answered with the executor's rows
SucceededOutcome(r) ==
    /\ CompilationSucceeded(r)
    /\ req[r].executor_calls = 1
    /\ req[r].outcome.exc = NoExc
    /\ req[r].response.status = "success"
    /\ req[r].response.jobs = [i \in 1..Len(req[r].outcome.rows) |-> req[r].outcome.rows[i]]
    /\ req[r].response.count = Len(req[r].outcome.rows)

\* outcome 2: compilation failed, client error, no rows
ClientErrorOutcome(r) ==
    /\ ~CompilationSucceeded(r)
    /\ req[r].executor_calls = 0
    /\ req[r].response.status_code = 400
    /\ req[r].response.jobs = <<>>

\* outcome 3: compiled, execution failed, internal error, no rows
InternalErrorOutcome(r) ==
    /\ CompilationSucceeded(r)
    /\ req[r].executor_calls = 1
    /\ req[r].outcome.exc # NoExc
    /\ req[r].response.status_code = 500
    /\ req[r].response.jobs = <<>>

\* C14: every finished request has exactly one of the three outcomes
\* (success with the executor's rows in order and their count; compilation
\* failed and a client error without rows; execution failed and an internal
\* error without rows), and the executor is called at most once per request
\* and only after the compilation has succeeded.
C14_ExactlyOneOfThreeOutcomes ==
    \A r \in Requests :
        /\ req[r].executor_calls <= 1
        /\ req[r].executor_calls = 1 => CompilationSucceeded(r)
        /\ Done(r) =>
              \/ SucceededOutcome(r)
              \/ ClientErrorOutcome(r)
              \/ InternalErrorOutcome(r)

(***************************************************************************)
(* Concurrent build_query calls.                                            *)
(***************************************************************************)
\* C13: with the steps of several build_query calls on one QueryBuilder
\* interleaved in any order, every call returns (or raises) exactly what it
\* returns when run alone, and the frames of a call hold nodes of its input
\* tree as it was passed.
C13_InterleavedCallsReturnAsAlone ==
    \A c \in Calls :
        LET k == builder.calls[c]
        IN  /\ k.pc = "done" => Get(k.result) = build_query(Get(k.node), k.limit)
            /\ \A j \in 1..Len(k.stack) : k.stack[j].node \in TreeNodes(Get(k.node))

\* C13 witness: a call that compiled test query 15 has returned its three
\* parameters after another call made steps in the middle of its walk, and
\* that other call has returned a statement as well.
C13_Witness ==
    \E c, o \in Calls :
        /\ c # o
        /\ builder.calls[c].pc = "done"
        /\ builder.calls[c].node = Some(Query15)
        /\ builder.calls[c].preempted
        /\ Get(builder.calls[c].result).exc = NoExc
        /\ Len(Get(builder.calls[c].result).params) = 3
        /\ builder.calls[o].pc = "done"
        /\ builder.calls[o].preempted
        /\ Get(builder.calls[o].result).exc = NoExc

====
